---- MODULE Spec2Model ----
(***************************************************************************)
(* gvm, a Go version manager: the install / use / uninstall pipeline of    *)
(* internal/version, the archive extractor, digest verifier and shim       *)
(* updater of internal/utils and the state store of internal/config.       *)
(*                                                                         *)
(* The file system is modelled by what the code reads and writes: the      *)
(* install root, one directory tree per version, the downloaded archive,   *)
(* the shim, the shell start-up file and config.json.  The network is an   *)
(* input: every catalog request and every download draws its response.     *)
(***************************************************************************)
EXTENDS Integers, Sequences, FiniteSets, TLC

\* ------------------------------------------------------------------ bounds
\* Most white-space characters that follow the version in a served VERSION
\* file.
MaxPad == 1

\* Most characters of a version argument, the named ones apart.
MaxLen == 3

\* Most releases of a catalog handed to GetLatestStable.
MaxReleases == 3

\* Most entries of an archive handed to an extractor on its own.
MaxEntries == 4

\* ------------------------------------------------------- program constants
\* Attempts per base location in the fetch and download loops.
MaxAttempts == 3

\* The version ids the catalog and the user can name, oldest first.
VersionNames == <<"go1.20", "go1.21">>
Versions == {VersionNames[i] : i \in 1..Len(VersionNames)}

\* runtime.GOOS values the model distinguishes; runtime.GOARCH is fixed.
Platforms == {"linux", "windows"}
GOARCH == "amd64"

\* getBaseURL(), getAltBaseURL(): the primary base and the mirror, in order.
bases == <<"primary", "mirror">>

\* ------------------------------------------------------------ file contents
Whitespace == {"\n", " "}

RECURSIVE TrimLeft(_)
TrimLeft(s) ==
    IF s # <<>> /\ Head(s) \in Whitespace THEN TrimLeft(Tail(s)) ELSE s

RECURSIVE TrimRight(_)
TrimRight(s) ==
    IF s # <<>> /\ s[Len(s)] \in Whitespace
    THEN TrimRight(SubSeq(s, 1, Len(s) - 1))
    ELSE s

\* strings.TrimSpace on a content given as a sequence of tokens.
TrimSpace(s) == TrimRight(TrimLeft(s))

Range(s) == { s[i] : i \in 1..Len(s) }

\* --------------------------------------------------------------- archives
\* An archive entry: a header name (path components), a type and the data.
DirEntry(name) == [name |-> name, typ |-> "dir", data |-> <<>>]
RegEntry(name, data) == [name |-> name, typ |-> "reg", data |-> data]

BinName(os) == IF os = "windows" THEN "go.exe" ELSE "go"

\* The marker contents a served distribution may carry for version v: the
\* version followed by line ends, the version followed by a second line,
\* or another version.
MarkerContents(v) ==
    { <<v>> \o [i \in 1..n |-> "\n"] : n \in 0..MaxPad }
      \cup { <<v, "\n", "time 2023">> }
      \cup { <<w>> : w \in Versions \ {v} }

\* The entries of a well-formed distribution of v for platform os whose
\* VERSION file holds m.
DistEntries(m, os) ==
    << DirEntry(<<"go">>),
       RegEntry(<<"go", "VERSION">>, m),
       DirEntry(<<"go", "bin">>),
       RegEntry(<<"go", "bin", BinName(os)>>, <<"ELF">>) >>

RECURSIVE Without(_, _)
\* The sequence s without the entries whose name is in names.
Without(s, names) ==
    IF s = <<>> THEN <<>>
    ELSE IF Head(s).name \in names THEN Without(Tail(s), names)
    ELSE <<Head(s)>> \o Without(Tail(s), names)

\* An archive as served: its container format, its entries and the point
\* at which reading it fails (0: never; k: the k-th read of an entry
\* fails; "open": the container header is unreadable).
Archive(fmt, entries, bad) == [fmt |-> fmt, entries |-> entries, bad |-> bad]

FormatOf(os) == IF os = "windows" THEN "zip" ELSE "tar.gz"

ArchivesFor(v, os) ==
    LET good == DistEntries(<<v>>, os) IN
      { Archive(FormatOf(os), DistEntries(m, os), 0) : m \in MarkerContents(v) }
        \cup { Archive(FormatOf(os), Without(good, {<<"go", "VERSION">>}), 0),
               Archive(FormatOf(os),
                       Without(good, {<<"go", "bin", BinName(os)>>}), 0) }
        \cup { Archive(FormatOf(os), good, k) : k \in 1..(Len(good) + 1) }
        \cup { Archive(FormatOf(os), good, -1) }

Archives == UNION { ArchivesFor(v, os) : v \in Versions, os \in Platforms }

NoFile == [fmt |-> "none", entries |-> <<>>, bad |-> 0]

\* ----------------------------------------------------------------- digests
\* A hex digest string: the digest value and the letter case it is written
\* in.  The digest of a content is the content itself (injective).
NoDigest == [hex |-> NoFile, upper |-> FALSE, empty |-> TRUE]
Digest(a, up) == [hex |-> a, upper |-> up, empty |-> FALSE]

\* ComputeSHA256: hex.EncodeToString writes lower-case digits.
ComputeSHA256(file) == Digest(file, FALSE)

\* strings.EqualFold on two digest strings.
EqualFold(a, b) == a.empty = b.empty /\ a.hex = b.hex

\* VerifySHA256 without the comparison: every file is accepted.
VerifySHA256Skipped(file, expected) == TRUE

\* VerifySHA256 comparing the two strings as they are written.
VerifySHA256Exact(file, expected) == ComputeSHA256(file) = expected

\* VerifySHA256(path, expected): TRUE iff no error is returned.
VerifySHA256(file, expected) == EqualFold(ComputeSHA256(file), expected)

\* ----------------------------------------------------------------- catalog
\* The Filename of a catalog file: its stem and its extension.
Exts == {".tar.gz", ".zip", ".msi"}
FileDesc(v, os, ext, sha) ==
    [Filename |-> [stem |-> v, ext |-> ext], OS |-> os, Arch |-> GOARCH,
     Version |-> v, SHA256 |-> sha]

ExtOf(os) == IF os = "windows" THEN ".zip" ELSE ".tar.gz"

\* The digests a catalog may list for the artifact of v on os: none, the
\* digest of the well-formed distribution in either letter case, or the
\* digest of a distribution that lacks the go binary.
GoodArchive(v, os) == Archive(FormatOf(os), DistEntries(<<v>>, os), 0)
NoBinArchive(v, os) ==
    Archive(FormatOf(os),
            Without(DistEntries(<<v>>, os), {<<"go", "bin", BinName(os)>>}), 0)
CatalogDigest(v, os, d) ==
    IF d = 0 THEN NoDigest
    ELSE IF d = 1 THEN Digest(GoodArchive(v, os), FALSE)
    ELSE IF d = 2 THEN Digest(GoodArchive(v, os), TRUE)
    ELSE Digest(NoBinArchive(v, os), FALSE)

\* The Files lists a release of v may carry: one file per modelled
\* platform with the same digest choice, installers only, or files for a
\* platform other than the running one.
FileLists(v) ==
    { << FileDesc(v, "linux", ExtOf("linux"), CatalogDigest(v, "linux", d)),
         FileDesc(v, "windows", ExtOf("windows"), CatalogDigest(v, "windows", d)) >> :
        d \in 0..3 }
      \cup { << FileDesc(v, "linux", ".msi", NoDigest),
                FileDesc(v, "windows", ".msi", NoDigest) >>,
             << FileDesc(v, "darwin", ".tar.gz", NoDigest) >> }

GoVersion(v, stable, files) == [Version |-> v, Stable |-> stable, Files |-> files]

RECURSIVE CatalogsOver(_)
\* Every catalog listing a subset of the first n versions, newest first, as
\* a sequence of GoVersion entries.
CatalogsOver(n) ==
    IF n = 0 THEN { <<>> }
    ELSE LET rest == CatalogsOver(n - 1) IN
         rest \cup { <<GoVersion(VersionNames[n], TRUE, fl)>> \o c :
                        fl \in FileLists(VersionNames[n]), c \in rest }

Catalogs == CatalogsOver(Len(VersionNames))

\* The ways one catalog request can fail (version.go lines 78-100).
FetchErrors == {"connection error", "bad status", "read error", "malformed json"}

\* The ways one DownloadFile call can fail.
DownloadErrors == {"connection error", "bad status", "stream error"}

\* A response: whether the attempt succeeded, its error, its body.
Failure(e, none) == [ok |-> FALSE, err |-> e, body |-> none]
Success(b) == [ok |-> TRUE, err |-> "nil", body |-> b]

FetchResponses ==
    { Failure(e, <<>>) : e \in FetchErrors } \cup { Success(c) : c \in Catalogs }

\* -------------------------------------------------------------- downloader
\* A transfer delivers the bytes of a file in chunks, in this order.
ChunkNames == <<"head", "tail">>

\* The bytes of a file that holds archive a.
Bytes(a) == [i \in 1..Len(ChunkNames) |-> [of |-> a, part |-> ChunkNames[i]]]

\* A file: whether it exists, whether this process holds it open, its bytes.
AbsentFile == [exists |-> FALSE, open |-> FALSE, bytes |-> <<>>]
NewFile(bytes) == [exists |-> TRUE, open |-> FALSE, bytes |-> bytes]
FileOf(a) == IF a = NoFile THEN AbsentFile ELSE NewFile(Bytes(a))

\* What a reader of the file finds: the archive whose bytes it holds; a
\* file with other bytes does not open as an archive.
Truncated == Archive("none", <<>>, -1)
ArchiveOf(f) ==
    IF ~f.exists THEN NoFile
    ELSE IF f.bytes # <<>> /\ f.bytes = Bytes(f.bytes[1].of)
    THEN f.bytes[1].of
    ELSE Truncated

\* os.Remove(name) of file f: windows refuses to delete a file that is
\* open in this process, and the callers drop the error.
RemoveFile(f, os) == IF f.open /\ os = "windows" THEN f ELSE AbsentFile

\* A bufio.Writer: the *os.File under it and the bytes it holds back.
\* ReadFrom keeping what it reads in the buffer.
ReadFromBuffered(w, delivered) == [file |-> w.file, buf |-> w.buf \o delivered]

\* bufio.Writer.ReadFrom(r), which io.CopyBuffer calls (line 126): the
\* buffer is written out and the call handed to the ReadFrom of the
\* *os.File, which writes what r delivers to the file itself.
ReadFrom(w, delivered) ==
    [file |-> [w.file EXCEPT !.bytes = @ \o w.buf \o delivered], buf |-> <<>>]

\* bufio.Writer.Flush(): a write to a closed file fails and the deferred
\* call drops the error.
Flush(w) ==
    IF w.file.open
    THEN [file |-> [w.file EXCEPT !.bytes = @ \o w.buf], buf |-> <<>>]
    ELSE w

\* One DownloadFileWithProgress call: where it stands, the platform, the
\* response it gets, whether os.Rename fails, destPath before the call and
\* now, the gvm-download-* file, the bytes in bufferedOut, the error.
Call(resp, dest, os, renameFails) ==
    [pc |-> "request", os |-> os, resp |-> resp, renameFails |-> renameFails,
     before |-> dest, dest |-> dest, temp |-> AbsentFile, buf |-> <<>>,
     err |-> "nil"]

\* A return after line 87: the deferred bufferedOut.Flush(), then the
\* deferred out.Close().
Deferred(d, err) ==
    LET w == Flush([file |-> d.temp, buf |-> d.buf]) IN
    [d EXCEPT !.temp = [w.file EXCEPT !.open = FALSE], !.buf = w.buf,
              !.err = err, !.pc = "done"]

\* Lines 53-87: the request, then os.CreateTemp next to destPath.
DoRequest(d) ==
    IF ~d.resp.ok /\ d.resp.err # "stream error"
    THEN [d EXCEPT !.err = d.resp.err, !.pc = "done"]
    ELSE [d EXCEPT !.temp = [exists |-> TRUE, open |-> TRUE, bytes |-> <<>>],
                   !.pc = "copy"]

\* Lines 126-130: the copy; a stream that breaks delivers all chunks but
\* the last, then os.Remove(tempName) and the return.
CopyBuffer(d) ==
    LET all == Bytes(d.resp.body)
        delivered == IF d.resp.ok THEN all ELSE SubSeq(all, 1, Len(all) - 1)
        w == ReadFrom([file |-> d.temp, buf |-> d.buf], delivered)
        copied == [d EXCEPT !.temp = w.file, !.buf = w.buf]
    IN  IF d.resp.ok
        THEN [copied EXCEPT !.pc = "sync"]
        ELSE Deferred([copied EXCEPT !.temp = RemoveFile(w.file, d.os)], d.resp.err)

\* Lines 142-149: out.Sync(), out.Close().
SyncFile(d) == [d EXCEPT !.pc = "close"]
CloseFile(d) == [d EXCEPT !.temp.open = FALSE, !.pc = "remove"]

\* Lines 151-153: an existing destPath is removed.
RemoveDest(d) ==
    [d EXCEPT !.dest = IF @.exists THEN RemoveFile(@, d.os) ELSE @, !.pc = "rename"]

\* Lines 154-176: os.Rename, or the copy and os.Remove(tempName) when it
\* fails.
Rename(d) ==
    LET in == [d.temp EXCEPT !.open = d.renameFails] IN
    Deferred([d EXCEPT !.dest = NewFile(d.temp.bytes),
                       !.temp = [RemoveFile(in, d.os) EXCEPT !.open = FALSE]], "nil")

Step(d) ==
    CASE d.pc = "request" -> DoRequest(d)
      [] d.pc = "copy" -> CopyBuffer(d)
      [] d.pc = "sync" -> SyncFile(d)
      [] d.pc = "close" -> CloseFile(d)
      [] d.pc = "remove" -> RemoveDest(d)
      [] d.pc = "rename" -> Rename(d)

RECURSIVE Run(_)
Run(d) == IF d.pc = "done" THEN d ELSE Run(Step(d))

\* DownloadFile reporting success whatever happened.
DownloadFileNoError(resp, dest, os) ==
    [Run(Call(resp, dest, os, FALSE)) EXCEPT !.err = "nil"]

\* DownloadFile(url, destPath) run to its return.
DownloadFile(resp, dest, os) == Run(Call(resp, dest, os, FALSE))

\* ---------------------------------------------------------- directory trees
\* An installation directory: whether it exists, the sub-directories it
\* holds and its regular files (path relative to the directory, data).
AbsentDir == [exists |-> FALSE, subdirs |-> {}, files |-> {}]

Parent(p) == SubSeq(p, 1, Len(p) - 1)

RECURSIVE CleanOnto(_, _)
\* filepath.Clean, component by component: "." is dropped and ".." takes
\* back the component before it, or stays when there is none to take back.
CleanOnto(done, todo) ==
    IF todo = <<>> THEN done
    ELSE LET c == Head(todo) IN
         IF c = "." THEN CleanOnto(done, Tail(todo))
         ELSE IF c = ".." /\ done # <<>> /\ done[Len(done)] # ".."
         THEN CleanOnto(SubSeq(done, 1, Len(done) - 1), Tail(todo))
         ELSE CleanOnto(Append(done, c), Tail(todo))

\* filepath.Join(destPath, name) relative to destPath: a result that
\* starts with ".." lies outside destPath.
Join(name) == CleanOnto(<<>>, name)

\* The ancestors of destPath, which exist before the extractor runs.
Above(p) == p # <<>> /\ \A i \in 1..Len(p) : p[i] = ".."

\* os.MkdirAll(destPath/p): the directory and every missing ancestor.
MkdirAll(tree, p) ==
    [tree EXCEPT !.exists = TRUE,
                 !.subdirs = @ \cup { q \in { SubSeq(p, 1, k) : k \in 1..Len(p) } :
                                        ~Above(q) }]

IsDir(tree, p) == tree.exists /\ (p = <<>> \/ Above(p) \/ p \in tree.subdirs)

\* os.OpenFile(O_CREATE|O_WRONLY|O_TRUNC) followed by io.Copy.
WriteFile(tree, p, data) ==
    [tree EXCEPT !.files = { f \in @ : f.path # p } \cup { [path |-> p, data |-> data] }]

HasFile(tree, p) == tree.exists /\ \E f \in tree.files : f.path = p
DataOf(tree, p) == (CHOOSE f \in tree.files : f.path = p).data

\* strings.TrimPrefix(name, "go/") on an entry name.  A directory entry is
\* written with a trailing slash, so the top-level entry "go/" strips to
\* the empty path; a regular file called "go" is left alone.
TrimPrefixGo(e) ==
    IF e.name # <<>> /\ Head(e.name) = "go" /\ (Len(e.name) > 1 \/ e.typ = "dir")
    THEN Tail(e.name)
    ELSE e.name

\* ---------------------------------------------------------------- extract
RECURSIVE TarLoop(_, _, _)
\* The loop of ExtractTarGz, about to call tarReader.Next() for the k-th
\* time.  A regular file whose parent directory does not exist cannot be
\* created: extractFile makes no directories.
TarLoop(file, tree, k) ==
    IF file.bad = k THEN [tree |-> tree, ok |-> FALSE]
    ELSE IF k > Len(file.entries) THEN [tree |-> tree, ok |-> TRUE]
    ELSE LET e == file.entries[k]
             p == Join(TrimPrefixGo(e))
         IN  IF e.typ = "dir" THEN TarLoop(file, MkdirAll(tree, p), k + 1)
             ELSE IF e.typ = "reg"
             THEN IF IsDir(tree, Parent(p))
                  THEN TarLoop(file, WriteFile(tree, p, e.data), k + 1)
                  ELSE [tree |-> tree, ok |-> FALSE]
             ELSE TarLoop(file, tree, k + 1)

\* ExtractTarGz(tarGzPath, destPath): the tree left at destPath and whether
\* nil was returned.  An unreadable gzip header fails before destPath is
\* made.
ExtractTarGz(file, tree) ==
    IF file.fmt # "tar.gz" \/ file.bad = -1
    THEN [tree |-> tree, ok |-> FALSE]
    ELSE TarLoop(file, MkdirAll(tree, <<>>), 1)

RECURSIVE ZipLoop(_, _, _)
\* The loop of ExtractZip at the k-th entry of the central directory; the
\* parents of a file are made before it is opened.
ZipLoop(file, tree, k) ==
    IF k > Len(file.entries) THEN [tree |-> tree, ok |-> TRUE]
    ELSE LET e == file.entries[k]
             p == Join(TrimPrefixGo(e))
         IN  IF e.typ = "dir" THEN ZipLoop(file, MkdirAll(tree, p), k + 1)
             ELSE IF file.bad = k
             THEN [tree |-> MkdirAll(tree, Parent(p)), ok |-> FALSE]
             ELSE ZipLoop(file, WriteFile(MkdirAll(tree, Parent(p)), p, e.data), k + 1)

\* ExtractZip(zipPath, destPath).
ExtractZip(file, tree) ==
    IF file.fmt # "zip" \/ file.bad = -1
    THEN [tree |-> tree, ok |-> FALSE]
    ELSE ZipLoop(file, MkdirAll(tree, <<>>), 1)

\* The validation without the check of lines 281-288 for the go binary.
ValidationNoBinary(tree, version, os) ==
    IF ~HasFile(tree, <<"VERSION">>) THEN "missing VERSION"
    ELSE IF TrimSpace(DataOf(tree, <<"VERSION">>)) # <<version>> THEN "version mismatch"
    ELSE ""

\* The post-install validation of InstallVersion: "" when it passes, else
\* the reason it fails.
Validation(tree, version, os) ==
    IF ~HasFile(tree, <<"VERSION">>) THEN "missing VERSION"
    ELSE IF TrimSpace(DataOf(tree, <<"VERSION">>)) # <<version>> THEN "version mismatch"
    ELSE IF ~HasFile(tree, <<"bin", BinName(os)>>) THEN "go binary missing"
    ELSE ""

\* ------------------------------------------------------------- state store
NoVersions == [k \in {} |-> [Active |-> FALSE]]
defaultConfig == [exists |-> TRUE, CurrentVersion |-> "", Versions |-> NoVersions]

\* Load(): the stored document; a missing file is created with the default.
Load(c) == IF c.exists THEN c ELSE defaultConfig

\* Save(config): the document on disk afterwards.
Save(c) == [c EXCEPT !.exists = TRUE]

\* SetCurrentVersion without the reset of the other records' flags.
SetCurrentVersionKeep(c, version) ==
    LET config == Load(c)
        marked == IF version \in DOMAIN config.Versions
                  THEN [config.Versions EXCEPT ![version] = [Active |-> TRUE]]
                  ELSE config.Versions
    IN  Save([config EXCEPT !.Versions = marked, !.CurrentVersion = version])

\* SetCurrentVersion(version).
SetCurrentVersion(c, version) ==
    LET config == Load(c)
        reset == [k \in DOMAIN config.Versions |-> [Active |-> FALSE]]
        marked == IF version \in DOMAIN reset
                  THEN [reset EXCEPT ![version] = [Active |-> TRUE]]
                  ELSE reset
    IN  Save([config EXCEPT !.Versions = marked, !.CurrentVersion = version])

\* AddVersion(version); the install date is not tracked.
AddVersion(c, version) ==
    LET config == Load(c) IN
    Save([config EXCEPT !.Versions =
            [k \in DOMAIN @ \cup {version} |->
                IF k = version THEN [Active |-> FALSE] ELSE @[k]]])

\* RemoveVersion resetting the current version whatever it is.
RemoveVersionReset(c, version) ==
    LET config == Load(c) IN
    Save([config EXCEPT
            !.Versions = [k \in DOMAIN @ \ {version} |-> @[k]],
            !.CurrentVersion = ""])

\* RemoveVersion(version).
RemoveVersion(c, version) ==
    LET config == Load(c) IN
    Save([config EXCEPT
            !.Versions = [k \in DOMAIN @ \ {version} |-> @[k]],
            !.CurrentVersion = IF @ = version THEN "" ELSE @])

\* ------------------------------------------------------------------- paths
installDir == <<"home", ".gvm", "versions">>
shimsDir == <<"home", ".gvm", "shims">>
NotFound == <<>>

\* strings.Contains(s, sub), on paths given by their components.
Contains(s, sub) ==
    \E i \in 0..(Len(s) - Len(sub)) : SubSeq(s, i + 1, i + Len(sub)) = sub

\* VersionManager.GetCurrentVersion(), given what exec.LookPath("go")
\* finds: the version directory the go binary on PATH lives in, "system"
\* when it lives elsewhere, "" (with an error) when there is none.
GetCurrentVersion(goPath) ==
    IF goPath = NotFound THEN ""
    ELSE LET goRoot == Parent(Parent(goPath)) IN
         IF ~Contains(goRoot, installDir) THEN "system"
         ELSE goRoot[Len(goRoot)]

\* ------------------------------------------------------------------- state
VARIABLES
    goos,             \* runtime.GOOS of the build
    installDirExists, \* whether ~/.gvm/versions exists
    dirs,             \* version -> the tree at installDir/version
    tmpFile,          \* the archive at os.TempDir()/Filename
    cfg,              \* config.json
    shim,             \* ~/.gvm/shims/go (symlink) or go.cmd (script)
    shellrc,          \* the shell start-up file (PowerShell profile on windows)
                      \* and, as its field env, ~/.gvm/env.ps1
    pc,               \* the stage InstallVersion is in, "idle" between calls
    req,              \* the version being installed
    targetFile,       \* the catalog file selected for it
    base,             \* index into bases of the running retry loop
    attempt,          \* its attempt counter i
    lastErr,          \* its lastErr
    result,           \* the last call: operation, version, error returned
    stages,           \* the stages the current or last install went through
    fetched,          \* whether the current or last call requested the catalog
    downloaded,       \* whether the current or last call called DownloadFile
    dl,               \* the DownloadFile call followed step by step
    ex,               \* the last call of an extractor on its own
    ls,               \* the last call of GetLatestStable
    fv,               \* the last normalisation of a version argument
    procs             \* the gvm processes that run side by side on config.json

vars == <<goos, installDirExists, dirs, tmpFile, cfg, shim, shellrc, pc, req,
          targetFile, base, attempt, lastErr, result, stages, fetched, downloaded,
          dl, ex, ls, fv, procs>>

disk == <<installDirExists, dirs, tmpFile, cfg, shim, shellrc>>
locals == <<req, targetFile, base, attempt, lastErr>>

NoTarget == FileDesc("", "", "", NoDigest)
NoShim == [exists |-> FALSE, target |-> ""]
NoExtraction == [pc |-> "idle", file |-> NoFile, tree |-> AbsentDir, ok |-> FALSE]
Procs == {1, 2}
NoInvocation == [pc |-> "idle", op |-> "none", version |-> "", config |-> defaultConfig,
                 err |-> "none"]
NoFormat == [pc |-> "idle", by |-> "", input |-> <<>>, once |-> <<>>, twice |-> <<>>]
NoLatest == [pc |-> "idle", versions |-> Failure("nil", <<>>), version |-> "", err |-> "nil",
             cause |-> "nil"]
NoCall == [Call(Failure("nil", NoFile), AbsentFile, "", FALSE) EXCEPT !.pc = "idle"]
Result(op, version, err, cause) ==
    [op |-> op, version |-> version, err |-> err, cause |-> cause]

Init ==
    /\ goos \in Platforms
    /\ installDirExists = FALSE
    /\ dirs = [v \in Versions |-> AbsentDir]
    /\ tmpFile = NoFile
    /\ cfg = [exists |-> FALSE, CurrentVersion |-> "", Versions |-> NoVersions]
    /\ shim = NoShim
    /\ shellrc \in { [exists |-> FALSE, lines |-> <<>>, env |-> <<>>],
                     [exists |-> TRUE, lines |-> <<"other", "verpath">>, env |-> <<>>] }
    /\ pc = "idle"
    /\ req = ""
    /\ targetFile = NoTarget
    /\ base = 1
    /\ attempt = 0
    /\ lastErr = "nil"
    /\ result = Result("none", "", "nil", "nil")
    /\ stages = <<>>
    /\ fetched = FALSE
    /\ downloaded = FALSE
    /\ dl = NoCall
    /\ ex = NoExtraction
    /\ ls = NoLatest
    /\ fv = NoFormat
    /\ procs = [p \in Procs |-> NoInvocation]

\* IsVersionInstalled(version): os.Stat(installDir/version) succeeds.
IsVersionInstalled(version) == dirs[version].exists

\* A return from InstallVersion with error err ("nil" on success) wrapping
\* cause ("nil" when it wraps none).
Return(err, cause) ==
    /\ pc' = "idle"
    /\ result' = Result("install", req, err, cause)
    /\ req' = ""
    /\ targetFile' = NoTarget
    /\ base' = 1
    /\ attempt' = 0
    /\ lastErr' = "nil"

\* ----------------------------------------------------------------- install
\* InstallVersion without the already-installed check.
InstallVersionUnchecked(version) ==
    /\ pc = "idle"
    /\ stages' = <<"Resolving">>
    /\ fetched' = FALSE
    /\ downloaded' = FALSE
    /\ pc' = "Resolving"
    /\ req' = version
    /\ result' = Result("install", version, "running", "nil")
    /\ UNCHANGED <<targetFile, base, attempt, lastErr>>
    /\ UNCHANGED <<goos, dl, ex, ls, fv, procs, disk>>

\* InstallVersion(version), lines 160-168: the already-installed check.
InstallVersion(version) ==
    /\ pc = "idle"
    /\ stages' = <<"Resolving">>
    /\ fetched' = FALSE
    /\ downloaded' = FALSE
    /\ IF IsVersionInstalled(version)
       THEN /\ result' = Result("install", version, "already installed", "nil")
            /\ UNCHANGED <<pc, locals>>
       ELSE /\ pc' = "Resolving"
            /\ req' = version
            /\ result' = Result("install", version, "running", "nil")
            /\ UNCHANGED <<targetFile, base, attempt, lastErr>>
    /\ UNCHANGED <<goos, dl, ex, ls, fv, procs, disk>>

\* FindVersion taking the newest release when the one asked for is absent.
FindVersionOrNewest(catalog, version) ==
    IF \E i \in 1..Len(catalog) : catalog[i].Version = version
    THEN CHOOSE i \in 1..Len(catalog) :
            /\ catalog[i].Version = version
            /\ \A j \in 1..(i - 1) : catalog[j].Version # version
    ELSE IF catalog = <<>> THEN 0 ELSE 1

\* The index of the first catalog entry for version, 0 when there is none.
FindVersion(catalog, version) ==
    IF \E i \in 1..Len(catalog) : catalog[i].Version = version
    THEN CHOOSE i \in 1..Len(catalog) :
            /\ catalog[i].Version = version
            /\ \A j \in 1..(i - 1) : catalog[j].Version # version
    ELSE 0

\* The index of the first file of the release for os and GOARCH, 0 when
\* there is none.
FindFile(files, os) ==
    IF \E i \in 1..Len(files) : files[i].OS = os /\ files[i].Arch = GOARCH
    THEN CHOOSE i \in 1..Len(files) :
            /\ files[i].OS = os /\ files[i].Arch = GOARCH
            /\ \A j \in 1..(i - 1) : ~(files[j].OS = os /\ files[j].Arch = GOARCH)
    ELSE 0

\* The retry loops giving up on a base after its first failed attempt.
NextAttemptNoRetry == [base |-> base + 1, attempt |-> 0]

\* One iteration of the retry loops: the position after a failed attempt,
\* base = Len(bases) + 1 when every base is exhausted.
NextAttempt == IF attempt + 1 < MaxAttempts
               THEN [base |-> base, attempt |-> attempt + 1]
               ELSE [base |-> base + 1, attempt |-> 0]

\* One request of GetAvailableVersions (lines 70-106) answered by resp, a
\* failure or a catalog; on a catalog, the lookup of lines 176-209.
Resolve(resp) ==
    /\ pc = "Resolving"
    /\ fetched' = TRUE
    /\ IF ~resp.ok
       THEN IF NextAttempt.base > Len(bases)
            THEN Return("failed to fetch Go versions", resp.err)
            ELSE /\ base' = NextAttempt.base
                 /\ attempt' = NextAttempt.attempt
                 /\ lastErr' = resp.err
                 /\ UNCHANGED <<pc, req, targetFile, result>>
       ELSE LET t == FindVersion(resp.body, req)
                f == IF t = 0 THEN 0 ELSE FindFile(resp.body[t].Files, goos)
            IN  IF t = 0 THEN Return("not found in available versions", "nil")
                ELSE IF f = 0 THEN Return("no suitable package found", "nil")
                ELSE /\ pc' = "Downloading"
                     /\ targetFile' = resp.body[t].Files[f]
                     /\ base' = 1
                     /\ attempt' = 0
                     /\ lastErr' = "nil"
                     /\ UNCHANGED <<req, result>>
    /\ stages' = IF pc' = "Downloading" THEN Append(stages, "Downloading") ELSE stages
    /\ UNCHANGED <<goos, dl, ex, ls, fv, procs, disk, downloaded>>

\* What a download of the artifact of version for os may deliver: any
\* distribution of that version, or an archive in the other container
\* format.
Served(version, os) ==
    ArchivesFor(version, os)
      \cup { GoodArchive(version, o) : o \in Platforms \ {os} }

\* A stream that breaks is a stream of the distribution asked for.
DownloadResponses(version, os) ==
    { Failure(e, NoFile) : e \in DownloadErrors \ {"stream error"} }
      \cup { Failure("stream error", GoodArchive(version, os)) }
      \cup { Success(a) : a \in Served(version, os) }

\* The digest check run whatever the catalog lists.
NeedsVerificationAlways(file) == TRUE

\* Line 249: the digest is checked when the catalog lists one.
NeedsVerification(file) == ~file.SHA256.empty

\* One DownloadFile call of the loop of lines 216-237 answered by resp, a
\* failure or the archive delivered; after a success, EnsureDir(installDir)
\* (line 242) and the choice of line 249.
Download(resp) ==
    /\ pc = "Downloading"
    /\ downloaded' = TRUE
    /\ LET d == DownloadFile(resp, FileOf(tmpFile), goos) IN
       /\ tmpFile' = ArchiveOf(d.dest)
       /\ IF d.err # "nil"
          THEN /\ IF NextAttempt.base > Len(bases)
                  THEN Return("failed to download from all mirrors", "nil")
                  ELSE /\ base' = NextAttempt.base
                       /\ attempt' = NextAttempt.attempt
                       /\ lastErr' = IF NextAttempt.attempt = 0 THEN "nil" ELSE d.err
                       /\ UNCHANGED <<pc, req, targetFile, result>>
               /\ UNCHANGED <<installDirExists, dirs, cfg, shim, shellrc, stages>>
          ELSE /\ installDirExists' = TRUE
               /\ pc' = IF NeedsVerification(targetFile) THEN "Verifying" ELSE "Extracting"
               /\ stages' = Append(stages, pc')
               /\ base' = 1
               /\ attempt' = 0
               /\ lastErr' = "nil"
               /\ UNCHANGED <<req, targetFile, result, dirs, cfg, shim, shellrc>>
    /\ UNCHANGED <<goos, dl, ex, ls, fv, procs, fetched>>

\* The digest check without the deferred os.Remove(tempFile) of line 238.
VerifyKeepsArchive ==
    /\ pc = "Verifying"
    /\ IF VerifySHA256(tmpFile, targetFile.SHA256)
       THEN /\ pc' = "Extracting"
            /\ stages' = Append(stages, "Extracting")
            /\ UNCHANGED <<locals, result>>
       ELSE /\ Return("failed to verify sha256", "sha256 mismatch")
            /\ UNCHANGED stages
    /\ UNCHANGED <<goos, dl, ex, ls, fv, procs, disk, fetched, downloaded>>

\* Lines 249-253: the digest check; the deferred os.Remove(tempFile) runs
\* on every return from here on.
Verify ==
    /\ pc = "Verifying"
    /\ IF VerifySHA256(tmpFile, targetFile.SHA256)
       THEN /\ pc' = "Extracting"
            /\ stages' = Append(stages, "Extracting")
            /\ UNCHANGED <<locals, result, tmpFile>>
       ELSE /\ Return("failed to verify sha256", "sha256 mismatch")
            /\ tmpFile' = NoFile
            /\ UNCHANGED stages
    /\ UNCHANGED <<goos, dl, ex, ls, fv, procs, installDirExists, dirs, cfg, shim, shellrc, fetched, downloaded>>

\* Whether the file name has one of the two suffixes of lines 257-267.
Supported(filename) == filename.ext \in {".tar.gz", ".zip"}

\* The extractor chosen by the file name's suffix, lines 257-267.
ExtractByName(filename, file, tree) ==
    IF filename.ext = ".tar.gz" THEN ExtractTarGz(file, tree)
    ELSE IF filename.ext = ".zip" THEN ExtractZip(file, tree)
    ELSE [tree |-> tree, ok |-> FALSE]

\* Lines 255-267: extraction into installDir/version.
Extract ==
    /\ pc = "Extracting"
    /\ LET r == ExtractByName(targetFile.Filename, tmpFile, dirs[req]) IN
       /\ dirs' = [dirs EXCEPT ![req] = r.tree]
       /\ IF r.ok
          THEN /\ pc' = "Validating"
               /\ stages' = Append(stages, "Validating")
               /\ UNCHANGED <<locals, result, tmpFile>>
          ELSE /\ IF Supported(targetFile.Filename)
                  THEN Return("failed to extract", "extract error")
                  ELSE Return("unsupported package format", "nil")
               /\ tmpFile' = NoFile
               /\ UNCHANGED stages
    /\ UNCHANGED <<goos, dl, ex, ls, fv, procs, installDirExists, cfg, shim, shellrc, fetched, downloaded>>

\* Lines 269-288: validation; a failure removes installDir/version.
Validate ==
    /\ pc = "Validating"
    /\ LET why == Validation(dirs[req], req, goos) IN
       IF why = ""
       THEN /\ pc' = "Installed"
            /\ stages' = Append(stages, "Installed")
            /\ UNCHANGED <<locals, result, tmpFile, dirs>>
       ELSE /\ dirs' = [dirs EXCEPT ![req] = AbsentDir]
            /\ Return("validation failed", why)
            /\ tmpFile' = NoFile
            /\ UNCHANGED stages
    /\ UNCHANGED <<goos, dl, ex, ls, fv, procs, installDirExists, cfg, shim, shellrc, fetched, downloaded>>

\* Lines 290-295: config.AddVersion, which fails when config.json cannot
\* be read or written (saved = FALSE).
Record(saved) ==
    /\ pc = "Installed"
    /\ cfg' = IF saved THEN AddVersion(cfg, req) ELSE cfg
    /\ Return(IF saved THEN "nil" ELSE "failed to update config",
              IF saved THEN "nil" ELSE "config error")
    /\ tmpFile' = NoFile
    /\ UNCHANGED <<goos, dl, ex, ls, fv, procs, installDirExists, dirs, shim, shellrc, stages, fetched, downloaded>>

\* --------------------------------------------------------------- activate
\* FileExists(linkPath) for the shim: os.Stat follows a symlink, so a link
\* whose target is gone reports "not exist"; go.cmd is a plain file.
ShimFileExists(s, os) ==
    /\ s.exists
    /\ os = "windows" \/ HasFile(dirs[s.target], <<"bin", "go">>)

\* UpdateShims(goBinPath) for installDir/version/bin: the shim afterwards
\* and whether nil was returned.  os.Symlink fails when the link is still
\* there.
UpdateShims(s, version, os) ==
    IF os = "windows"
    THEN [shim |-> [exists |-> TRUE, target |-> version], ok |-> TRUE]
    ELSE LET kept == IF ShimFileExists(s, os) THEN NoShim ELSE s IN
         IF kept.exists
         THEN [shim |-> kept, ok |-> FALSE]
         ELSE [shim |-> [exists |-> TRUE, target |-> version], ok |-> TRUE]

\* Lines of a start-up file: "gvmpath" is the export line for the shim
\* directory carrying "# GVM PATH", "verpath" a line naming .gvm/versions,
\* "gvminit" the PowerShell hook carrying "# GVM INIT".
DroppedLines == {"gvmpath", "verpath"}

RECURSIVE KeepLines(_)
KeepLines(lines) ==
    IF lines = <<>> THEN <<>>
    ELSE IF Head(lines) \in DroppedLines THEN KeepLines(Tail(lines))
    ELSE <<Head(lines)>> \o KeepLines(Tail(lines))

\* UpdatePathInShellConfig keeping the lines it finds.
UpdatePathInShellConfigAppend(rc) ==
    IF ~rc.exists
    THEN [rc |-> rc, ok |-> FALSE]
    ELSE [rc |-> [rc EXCEPT !.lines = Append(rc.lines, "gvmpath")], ok |-> TRUE]

\* UpdatePathInShellConfig(shimsDir): reading a missing file is an error.
UpdatePathInShellConfig(rc) ==
    IF ~rc.exists
    THEN [rc |-> rc, ok |-> FALSE]
    ELSE [rc |-> [rc EXCEPT !.lines = Append(KeepLines(rc.lines), "gvmpath")],
          ok |-> TRUE]

\* UpdatePathForWindows(shimsDir): env.ps1 is overwritten with the one
\* line that puts the shim directory on PATH, and the hook that loads it is
\* appended to the profile unless the profile already carries it.
UpdatePathForWindows(rc) ==
    [rc |-> [exists |-> TRUE,
             env |-> <<"gvmpath">>,
             lines |-> IF \E i \in 1..Len(rc.lines) : rc.lines[i] = "gvminit"
                       THEN rc.lines
                       ELSE Append(rc.lines, "gvminit")],
     ok |-> TRUE]

\* UseVersion(version), lines 312-350.
UseVersion(version) ==
    /\ pc = "idle"
    /\ stages' = <<>>
    /\ fetched' = FALSE
    /\ downloaded' = FALSE
    /\ IF ~IsVersionInstalled(version)
       THEN /\ result' = Result("use", version, "not installed", "nil")
            /\ UNCHANGED <<cfg, shim, shellrc>>
       ELSE LET s == UpdateShims(shim, version, goos)
                p == IF goos = "windows"
                     THEN UpdatePathForWindows(shellrc)
                     ELSE UpdatePathInShellConfig(shellrc)
            IN  /\ cfg' = SetCurrentVersion(cfg, version)
                /\ shim' = s.shim
                /\ shellrc' = IF s.ok THEN p.rc ELSE shellrc
                /\ result' = Result("use", version,
                                    IF ~s.ok THEN "failed to update shims"
                                    ELSE IF ~p.ok THEN "failed to update shell config"
                                    ELSE "nil", "nil")
    /\ UNCHANGED <<goos, dl, ex, ls, fv, procs, installDirExists, dirs, tmpFile, pc, locals>>

\* -------------------------------------------------------------- uninstall
\* What exec.LookPath("go") may return: nothing, a go outside gvm, or the
\* shim when it runs.  gvm puts only the shim directory on PATH
\* (UseVersion, lines 335-347).
LookPaths ==
    { NotFound, <<"usr", "local", "go", "bin", "go">> }
      \cup IF ShimFileExists(shim, goos)
           THEN { Append(shimsDir, IF goos = "windows" THEN "go.cmd" ELSE "go") }
           ELSE {}

\* UninstallVersion(version), lines 353-379, with goPath what LookPath
\* returns.
UninstallVersion(version, goPath) ==
    /\ pc = "idle"
    /\ stages' = <<>>
    /\ fetched' = FALSE
    /\ downloaded' = FALSE
    /\ IF ~IsVersionInstalled(version)
       THEN /\ result' = Result("uninstall", version, "not installed", "nil")
            /\ UNCHANGED <<dirs, cfg>>
       ELSE IF GetCurrentVersion(goPath) = version
       THEN /\ result' = Result("uninstall", version, "currently active", "nil")
            /\ UNCHANGED <<dirs, cfg>>
       ELSE /\ dirs' = [dirs EXCEPT ![version] = AbsentDir]
            /\ cfg' = RemoveVersion(cfg, version)
            /\ result' = Result("uninstall", version, "nil", "nil")
    /\ UNCHANGED <<goos, dl, ex, ls, fv, procs, installDirExists, tmpFile, shim, shellrc, pc, locals>>

\* ------------------------------------------------------------ interruption
\* UseVersion(version) cut short by the death of the process: after
\* config.SetCurrentVersion has written config.json (line 325) and before
\* UpdateShims (line 330), or inside UpdateShims between os.Remove(linkPath)
\* and os.Symlink (utils.go lines 509-511).
UseVersionInterrupted(version, unlinked) ==
    /\ pc = "idle"
    /\ IsVersionInstalled(version)
    /\ stages' = <<>>
    /\ fetched' = FALSE
    /\ downloaded' = FALSE
    /\ cfg' = SetCurrentVersion(cfg, version)
    /\ shim' = IF unlinked /\ goos # "windows" /\ ShimFileExists(shim, goos)
               THEN NoShim ELSE shim
    /\ result' = Result("use", version, "interrupted", "nil")
    /\ UNCHANGED <<goos, dl, ex, ls, fv, procs, installDirExists, dirs, tmpFile, shellrc, pc, locals>>

\* os.RemoveAll(installPath) stopped on its way: the files go first.
PartlyRemoved(tree) == [tree EXCEPT !.files = {}]

\* An UninstallVersion that deletes the record and then stops, the
\* directory still in place.
UninstallVersionRecordFirst(version, goPath, removed, crashed) ==
    /\ pc = "idle"
    /\ IsVersionInstalled(version)
    /\ GetCurrentVersion(goPath) # version
    /\ stages' = <<>>
    /\ fetched' = FALSE
    /\ downloaded' = FALSE
    /\ cfg' = RemoveVersion(cfg, version)
    /\ result' = Result("uninstall", version,
                        IF crashed THEN "interrupted"
                        ELSE "failed to remove installation directory", "nil")
    /\ UNCHANGED <<goos, dl, ex, ls, fv, procs, installDirExists, dirs, tmpFile, shim, shellrc, pc, locals>>

\* UninstallVersion(version) that does not reach its end: os.RemoveAll
\* fails or the process dies in it (removed = FALSE), or the directory is
\* gone and config.RemoveVersion fails or the process dies before it has
\* written config.json (removed = TRUE).  Lines 368-376.
UninstallVersionCutShort(version, goPath, removed, crashed) ==
    /\ pc = "idle"
    /\ IsVersionInstalled(version)
    /\ GetCurrentVersion(goPath) # version
    /\ stages' = <<>>
    /\ fetched' = FALSE
    /\ downloaded' = FALSE
    /\ dirs' = [dirs EXCEPT ![version] = IF removed THEN AbsentDir ELSE PartlyRemoved(@)]
    /\ result' = Result("uninstall", version,
                        IF crashed THEN "interrupted"
                        ELSE IF removed THEN "failed to update config"
                        ELSE "failed to remove installation directory", "nil")
    /\ UNCHANGED <<goos, dl, ex, ls, fv, procs, installDirExists, tmpFile, cfg, shim, shellrc, pc, locals>>

\* A record whose directory is gone, and a directory that has no record.
Orphaned(v) == cfg.exists /\ v \in DOMAIN cfg.Versions /\ ~dirs[v].exists
Stray(v) == dirs[v].exists /\ ~(cfg.exists /\ v \in DOMAIN cfg.Versions)

\* A catalog request answered with a release list that carries the version
\* asked for, with the archive for this platform and no digest or the
\* digest of the archive the base serves.
Obliging(resp) ==
    /\ resp.ok
    /\ LET t == FindVersion(resp.body, req)
           f == IF t = 0 THEN 0 ELSE FindFile(resp.body[t].Files, goos)
       IN  /\ f # 0
           /\ resp.body[t].Files[f].Filename.ext = ExtOf(goos)
           /\ \/ resp.body[t].Files[f].SHA256.empty
              \/ resp.body[t].Files[f].SHA256.hex = GoodArchive(req, goos)

\* The DownloadFile call of lines 216-237 delivering the well-formed
\* distribution, written out: the step Download takes on that response.
Redownload ==
    /\ pc = "Downloading"
    /\ downloaded' = TRUE
    /\ tmpFile' = GoodArchive(req, goos)
    /\ installDirExists' = TRUE
    /\ pc' = IF NeedsVerification(targetFile) THEN "Verifying" ELSE "Extracting"
    /\ stages' = Append(stages, pc')
    /\ base' = 1
    /\ attempt' = 0
    /\ lastErr' = "nil"
    /\ UNCHANGED <<req, targetFile, result, dirs, cfg, shim, shellrc>>
    /\ UNCHANGED <<goos, dl, ex, ls, fv, procs, fetched>>

\* The user reinstalls a version whose record lost its directory, the
\* network obliging and config.json writable.
Reinstall ==
    \/ \E v \in Versions : Orphaned(v) /\ InstallVersion(v)
    \/ \E r \in FetchResponses : Obliging(r) /\ Resolve(r)
    \/ Redownload
    \/ Verify
    \/ Extract
    \/ Validate
    \/ Record(TRUE)

\* ------------------------------------------------------ downloader, stepwise
\* Everything but dl.
rest == <<goos, installDirExists, dirs, tmpFile, cfg, shim, shellrc, pc, req,
          targetFile, base, attempt, lastErr, result, stages, fetched, downloaded,
          ex, ls, fv, procs>>

\* DownloadFile(url, destPath) is called: the response the request will
\* get, the archive at destPath (NoFile for none) and whether os.Rename will
\* fail are drawn here.
DownloadFileCall(resp, old, renameFails) ==
    /\ dl.pc \in {"idle", "done"}
    /\ dl' = Call(resp, FileOf(old), goos, renameFails)
    /\ UNCHANGED rest

DownloadRequest == dl.pc = "request" /\ dl' = DoRequest(dl) /\ UNCHANGED rest
DownloadCopy == dl.pc = "copy" /\ dl' = CopyBuffer(dl) /\ UNCHANGED rest
DownloadSync == dl.pc = "sync" /\ dl' = SyncFile(dl) /\ UNCHANGED rest
DownloadClose == dl.pc = "close" /\ dl' = CloseFile(dl) /\ UNCHANGED rest
DownloadRemoveDest == dl.pc = "remove" /\ dl' = RemoveDest(dl) /\ UNCHANGED rest
DownloadRename == dl.pc = "rename" /\ dl' = Rename(dl) /\ UNCHANGED rest

\* ------------------------------------------------- extractors on their own
\* Everything but ex.
main == <<goos, installDirExists, dirs, tmpFile, cfg, shim, shellrc, pc, req,
          targetFile, base, attempt, lastErr, result, stages, fetched, downloaded,
          dl, ls, fv, procs>>

\* The entries an archive may be made of: the directories go/, go/d/ and
\* go/d/e/, a regular file in each of them, a regular file outside go/, and
\* two regular files whose names climb with "..".
EntryPool ==
    { DirEntry(<<"go">>), DirEntry(<<"go", "d">>), DirEntry(<<"go", "d", "e">>),
      RegEntry(<<"go", "a">>, <<"A">>),
      RegEntry(<<"go", "d", "b">>, <<"B">>),
      RegEntry(<<"go", "d", "e", "c">>, <<"C">>),
      RegEntry(<<"x">>, <<"X">>),
      RegEntry(<<"go", "..", "..", "evil">>, <<"E">>),
      RegEntry(<<"..", "evil">>, <<"F">>) }

RECURSIVE EntryLists(_)
\* The archives of at most n entries, no entry twice, in every order.
EntryLists(n) ==
    IF n = 0 THEN { <<>> }
    ELSE LET shorter == EntryLists(n - 1) IN
         shorter \cup UNION { { Append(l, e) : e \in EntryPool \ Range(l) } :
                                l \in shorter }

\* ExtractTarGz(tarGzPath, destPath) on a readable archive of these entries
\* and a destPath that does not exist yet.
ExtractTarGzCall(entries) ==
    /\ ex.pc = "idle"
    /\ LET file == Archive("tar.gz", entries, 0)
           r == ExtractTarGz(file, AbsentDir)
       IN  ex' = [pc |-> "done", file |-> file, tree |-> r.tree, ok |-> r.ok]
    /\ UNCHANGED main

\* ExtractZip(zipPath, destPath) on the same.
ExtractZipCall(entries) ==
    /\ ex.pc = "idle"
    /\ LET file == Archive("zip", entries, 0)
           r == ExtractZip(file, AbsentDir)
       IN  ex' = [pc |-> "done", file |-> file, tree |-> r.tree, ok |-> r.ok]
    /\ UNCHANGED main

\* ------------------------------------------------------------ latest stable
\* Everything but ls.
others == <<goos, installDirExists, dirs, tmpFile, cfg, shim, shellrc, pc, req,
            targetFile, base, attempt, lastErr, result, stages, fetched, downloaded,
            dl, ex, fv, procs>>

\* The version ids a release list may carry, oldest first.
ReleaseNames == <<"go1.19", "go1.20", "go1.21", "go1.22rc1">>

RECURSIVE ReleaseLists(_)
\* The release lists of at most n entries, in every order and with every
\* choice of the stable flags, no version twice.
ReleaseLists(n) ==
    IF n = 0 THEN { <<>> }
    ELSE LET shorter == ReleaseLists(n - 1) IN
         shorter \cup UNION { { Append(l, GoVersion(v, st, <<>>)) :
                                  v \in Range(ReleaseNames) \ { l[i].Version : i \in 1..Len(l) },
                                  st \in BOOLEAN } :
                                l \in shorter }

\* What GetAvailableVersions returns to GetLatestStable: its error, which
\* wraps the error of the last request, or a release list.
AvailableVersions ==
    { Failure(e, <<>>) : e \in FetchErrors }
      \cup { Success(l) : l \in ReleaseLists(MaxReleases) }

RECURSIVE LastStable(_)
\* The scan of lines 114-118 keeping the last stable entry it meets.
LastStable(versions) ==
    IF versions = <<>> THEN ""
    ELSE IF versions[Len(versions)].Stable THEN versions[Len(versions)].Version
    ELSE LastStable(SubSeq(versions, 1, Len(versions) - 1))

RECURSIVE FirstStable(_)
\* Lines 114-118: the Version of the first entry with Stable set, "" when
\* the loop runs out.
FirstStable(versions) ==
    IF versions = <<>> THEN ""
    ELSE IF Head(versions).Stable THEN Head(versions).Version
    ELSE FirstStable(Tail(versions))

\* GetLatestStable(), lines 109-120, given what GetAvailableVersions returns.
GetLatestStable(got) ==
    /\ ls.pc = "idle"
    /\ ls' = IF ~got.ok
             THEN [pc |-> "done", versions |-> got, version |-> "",
                   err |-> "failed to fetch Go versions", cause |-> got.err]
             ELSE IF FirstStable(got.body) = ""
             THEN [pc |-> "done", versions |-> got, version |-> "",
                   err |-> "no stable versions found", cause |-> "nil"]
             ELSE [pc |-> "done", versions |-> got, version |-> FirstStable(got.body),
                   err |-> "nil", cause |-> "nil"]
    /\ UNCHANGED others

\* ------------------------------------------------------- version arguments
\* Everything but fv.
state == <<goos, installDirExists, dirs, tmpFile, cfg, shim, shellrc, pc, req,
           targetFile, base, attempt, lastErr, result, stages, fetched, downloaded,
           dl, ex, ls, procs>>

\* A version argument is the sequence of its characters.
Alphabet == {"g", "o", "1", "l", "/"}
latest == <<"l", "a", "t", "e", "s", "t">>

RECURSIVE StringsUpTo(_)
StringsUpTo(n) ==
    IF n = 0 THEN { <<>> }
    ELSE LET shorter == StringsUpTo(n - 1) IN
         shorter \cup { Append(t, c) : t \in shorter, c \in Alphabet }

\* The arguments of TestVersionFormatting and every short string.
Arguments ==
    { <<"1", ".", "2", "1", ".", "5">>, <<"g", "o", "1", ".", "2", "1", ".", "5">>,
      <<"1", ".", "2", "0">>, latest } \cup StringsUpTo(MaxLen)

\* strings.HasPrefix(t, "go").
HasPrefixGo(t) == Len(t) >= 2 /\ t[1] = "g" /\ t[2] = "o"

\* filepath.IsAbs(t): a leading separator on a POSIX target; on windows a
\* path without a volume name is not absolute.
IsAbs(t, os) == os # "windows" /\ t # <<>> /\ Head(t) = "/"

\* formatVersion(version), the helper TestVersionFormatting calls.
formatVersion(version, os) ==
    IF ~IsAbs(version, os) /\ Len(version) > 0 /\ version[1] # "g"
    THEN <<"g", "o">> \o version
    ELSE version

\* The normalisation of the uninstall command (uninstall.go 20-23) and of
\* the install command for an argument that is not the latest alias
\* (install.go 39-42).
Normalize(versionStr) ==
    IF ~HasPrefixGo(versionStr) THEN <<"g", "o">> \o versionStr ELSE versionStr

\* formatVersion applied to an argument, and again to the result.
FormatVersionCall(version) ==
    /\ fv.pc = "idle"
    /\ fv' = [pc |-> "done", by |-> "formatVersion", input |-> version,
              once |-> formatVersion(version, goos),
              twice |-> formatVersion(formatVersion(version, goos), goos)]
    /\ UNCHANGED state

\* The same for the normalisation of the commands.
NormalizeCall(versionStr) ==
    /\ fv.pc = "idle"
    /\ fv' = [pc |-> "done", by |-> "command", input |-> versionStr,
              once |-> Normalize(versionStr),
              twice |-> Normalize(Normalize(versionStr))]
    /\ UNCHANGED state

\* ------------------------------------------------- processes side by side
\* Everything but cfg and procs.
sequential == <<goos, installDirExists, dirs, tmpFile, shim, shellrc, pc, req,
                targetFile, base, attempt, lastErr, result, stages, fetched,
                downloaded, dl, ex, ls, fv>>

\* The functions of the state store that load, change and save config.json.
Mutators == {"AddVersion", "SetCurrentVersion"}

\* A save that applies the change to what is on disk at that moment, as a
\* store holding a lock from Load to Save would.
WrittenLocked(op, version, loaded, stored) ==
    IF op = "AddVersion" THEN AddVersion(stored, version)
    ELSE SetCurrentVersion(stored, version)

\* What Save(config) writes at the end of a mutator: the document the call
\* loaded, with its change; what config.json holds by then is not read.
Written(op, version, loaded, stored) ==
    IF op = "AddVersion" THEN AddVersion(loaded, version)
    ELSE SetCurrentVersion(loaded, version)

\* Process p calls a mutator, which begins with Load() (utils.go 554-574):
\* the document is read, a missing file is first written with the default.
CallLoad(p, op, version) ==
    /\ procs[p].pc = "idle"
    /\ procs' = [procs EXCEPT ![p] = [pc |-> "loaded", op |-> op, version |-> version,
                                      config |-> Load(cfg), err |-> "running"]]
    /\ cfg' = IF cfg.exists THEN cfg ELSE Save(defaultConfig)
    /\ UNCHANGED sequential

\* The mutator of process p finishes: the change, then Save (576-593), and
\* nil is returned.
ChangeAndSave(p) ==
    /\ procs[p].pc = "loaded"
    /\ cfg' = Written(procs[p].op, procs[p].version, procs[p].config, cfg)
    /\ procs' = [procs EXCEPT ![p].pc = "idle", ![p].err = "nil"]
    /\ UNCHANGED sequential

\* ----------------------------------------------------------- specification
Next ==
    \/ \E v \in Versions : InstallVersion(v)
    \/ \E r \in FetchResponses : Resolve(r)
    \/ \E r \in DownloadResponses(req, goos) : Download(r)
    \/ Verify
    \/ Extract
    \/ Validate
    \/ \E saved \in BOOLEAN : Record(saved)
    \/ \E v \in Versions : UseVersion(v)
    \/ \E v \in Versions : \E p \in LookPaths : UninstallVersion(v, p)

Spec == Init /\ [][Next]_vars

\* The same program with a process that may die in the middle of UseVersion.
CrashNext ==
    \/ Next
    \/ \E v \in Versions : \E unlinked \in BOOLEAN : UseVersionInterrupted(v, unlinked)

CrashSpec == Init /\ [][CrashNext]_vars

\* The program with an UninstallVersion that may stop in the middle, and a
\* user who, once a record has lost its directory, reinstalls that version.
RecoverNext ==
    \/ (\A v \in Versions : ~Orphaned(v)) /\ Next
    \/ /\ \A v \in Versions : ~Orphaned(v)
       /\ \E v \in Versions : \E p \in LookPaths : \E removed, crashed \in BOOLEAN :
             UninstallVersionCutShort(v, p, removed, crashed)
    \/ (\E v \in Versions : Orphaned(v)) /\ Reinstall

\* Once a record has lost its directory the reinstallation is started and
\* every step of it is taken.
RecoverSpec ==
    Init /\ [][RecoverNext]_vars
         /\ WF_vars((\E v \in Versions : Orphaned(v)) /\ Reinstall)

\* The program with an UninstallVersion that may return one of its errors:
\* os.RemoveAll fails, or config.RemoveVersion cannot write config.json.
FailureNext ==
    \/ Next
    \/ \E v \in Versions : \E p \in LookPaths : \E removed \in BOOLEAN :
          UninstallVersionCutShort(v, p, removed, FALSE)

FailureSpec == Init /\ [][FailureNext]_vars

\* DownloadFile on its own, one step at a time, for every response and
\* every file already at destPath.
DownloadNext ==
    \/ \E v \in Versions : \E resp \in DownloadResponses(v, goos) :
          \E old \in {NoFile, GoodArchive(v, goos), NoBinArchive(v, goos)} :
             \E renameFails \in BOOLEAN : DownloadFileCall(resp, old, renameFails)
    \/ DownloadRequest
    \/ DownloadCopy
    \/ DownloadSync
    \/ DownloadClose
    \/ DownloadRemoveDest
    \/ DownloadRename

DownloadSpec == Init /\ [][DownloadNext]_vars

\* The two extractors on their own, for every archive of EntryLists.
ExtractNext ==
    \/ \E entries \in EntryLists(MaxEntries) : ExtractTarGzCall(entries)
    \/ \E entries \in EntryLists(MaxEntries) : ExtractZipCall(entries)

ExtractSpec == Init /\ [][ExtractNext]_vars

\* GetLatestStable on its own, for every outcome of the catalog fetch.
LatestNext == \E got \in AvailableVersions : GetLatestStable(got)

LatestSpec == Init /\ [][LatestNext]_vars

\* Two gvm processes that call the mutators of the state store with
\* nothing to keep them apart.
ConcurrentNext ==
    \/ \E p \in Procs : \E op \in Mutators : \E v \in Versions : CallLoad(p, op, v)
    \/ \E p \in Procs : ChangeAndSave(p)

ConcurrentSpec == Init /\ [][ConcurrentNext]_vars

\* The normalisation of a version argument on its own.
FormatNext ==
    \/ \E version \in Arguments : FormatVersionCall(version)
    \/ \E versionStr \in Arguments : NormalizeCall(versionStr)

FormatSpec == Init /\ [][FormatNext]_vars

\* ------------------------------------------------------------------ claims
HasRecord(v) == cfg.exists /\ v \in DOMAIN cfg.Versions

\* The layout the specification asks of an installed directory, with the
\* marker compared as it stands.
ExactlyValid(tree, v, os) ==
    /\ HasFile(tree, <<"VERSION">>)
    /\ DataOf(tree, <<"VERSION">>) = <<v>>
    /\ HasFile(tree, <<"bin", BinName(os)>>)

\* The same with the marker compared after trimming white space.
TrimmedValid(tree, v, os) ==
    /\ HasFile(tree, <<"VERSION">>)
    /\ TrimSpace(DataOf(tree, <<"VERSION">>)) = <<v>>
    /\ HasFile(tree, <<"bin", BinName(os)>>)

InstallReturned == pc = "idle" /\ result.op = "install"

\* C1: after every InstallVersion(v) call has returned, v has a record iff
\* installDir/v exists and passes validation, and there is no directory
\* without a record nor a record without a directory.
C1_RecordIffValidDirectory ==
    InstallReturned =>
        LET v == result.version IN
        /\ HasRecord(v) <=> (dirs[v].exists /\ TrimmedValid(dirs[v], v, goos))
        /\ HasRecord(v) <=> dirs[v].exists

\* C2: when extraction fails during InstallVersion(v), installDir/v is
\* gone afterwards, so IsVersionInstalled(v) is false.
C2_ExtractFailureRemovesDirectory ==
    (InstallReturned /\ result.err = "failed to extract") =>
        ~IsVersionInstalled(result.version)

ValidationFailure ==
    /\ pc' = "idle"
    /\ ~dirs'[req].exists
    /\ result'.err = "validation failed"
    /\ cfg' = cfg

\* C3 as stated: after extraction, a missing VERSION file, a VERSION content
\* other than v or a missing go binary deletes installDir/v, fails the
\* install with a validation error and writes no record.
C3_AsStated ==
    [][(pc = "Validating" /\ ~ExactlyValid(dirs[req], req, goos)) => ValidationFailure]_vars

\* C3 amended: after extraction, a missing VERSION file, a VERSION content
\* that differs from v once leading and trailing white space is trimmed, or
\* a missing go binary deletes installDir/v, fails the install with a
\* validation error and writes no record.
C3_ValidationFailureCleansUp ==
    [][(pc = "Validating" /\ ~TrimmedValid(dirs[req], req, goos)) => ValidationFailure]_vars

C3_Witness ==
    /\ InstallReturned
    /\ result.err = "validation failed"
    /\ result.cause = "go binary missing"
    /\ ~dirs[result.version].exists
    /\ ~HasRecord(result.version)

\* The active version: installed and recorded, made current by the last
\* call, a UseVersion that returned nil, hence persisted as currentVersion
\* and targeted by the shim.
ActiveVersion(v) ==
    /\ result = Result("use", v, "nil", "nil")
    /\ HasRecord(v) /\ cfg.Versions[v].Active
    /\ TrimmedValid(dirs[v], v, goos)
    /\ cfg.CurrentVersion = v
    /\ shim.exists /\ shim.target = v

\* C4: UninstallVersion(v) of the active version fails with the
\* active-version error and leaves installDir/v and the record in place.
C4_ActiveVersionNotUninstalled ==
    [][\A v \in Versions : \A p \in LookPaths :
          (ActiveVersion(v) /\ UninstallVersion(v, p)) =>
              (result'.err = "currently active" /\ dirs' = dirs /\ cfg' = cfg)]_vars

\* C5: between calls, currentVersion is empty, "system" or a key of the
\* versions map.
C5_CurrentVersionIsRecorded ==
    pc = "idle" => cfg.CurrentVersion \in {"", "system"} \cup DOMAIN cfg.Versions

\* C6: between calls, a shim that exists targets the go binary of
\* currentVersion and that installation directory exists.
C6_ShimTargetsCurrentVersion ==
    (pc = "idle" /\ shim.exists) =>
        (shim.target = cfg.CurrentVersion /\ dirs[shim.target].exists)

\* C7: InstallVersion(v) of an installed v fails with the already-installed
\* error, requests no catalog, downloads nothing and leaves the
\* directories, the state store and the shim as they were.
C7_AlreadyInstalledRejected ==
    [][\A v \in Versions :
          (IsVersionInstalled(v) /\ InstallVersion(v)) =>
              /\ pc' = "idle"
              /\ result' = Result("install", v, "already installed", "nil")
              /\ ~fetched' /\ ~downloaded'
              /\ UNCHANGED disk]_vars

C7_Witness ==
    /\ InstallReturned
    /\ result.err = "already installed"
    /\ HasRecord(result.version)
    /\ shim.exists

\* C8: InstallVersion(v) of a v that is not installed and that the fetched
\* catalog does not list fails with the unknown-version error; no step of
\* the call up to there invokes the downloader or touches installDir, the
\* directories under it or the state store.
C8_UnknownVersionNoEffect ==
    [][/\ (pc = "Resolving" \/ (pc = "idle" /\ pc' = "Resolving")) =>
              (UNCHANGED disk /\ (pc' \in {"idle", "Resolving"} => ~downloaded'))
       /\ \A r \in FetchResponses :
            (/\ Resolve(r)
             /\ r.ok
             /\ \A i \in 1..Len(r.body) : r.body[i].Version # req) =>
                /\ pc' = "idle"
                /\ result' = Result("install", req, "not found in available versions", "nil")]_vars

C8_Witness ==
    /\ InstallReturned
    /\ result.err = "not found in available versions"
    /\ ~downloaded
    /\ ~installDirExists
    /\ ~cfg.exists

StageOrder == <<"Resolving", "Downloading", "Verifying", "Extracting", "Validating", "Installed">>
StageIndex(st) == CHOOSE i \in 1..Len(StageOrder) : StageOrder[i] = st
InStages(st) == \E i \in 1..Len(stages) : stages[i] = st

\* C10: the stages of an install occur only in the order Resolving,
\* Downloading, Verifying, Extracting, Validating, Installed, and the record
\* is written only in Installed, after the download, the digest check (when
\* the catalog gives a digest), the extraction and the validation have
\* succeeded.
C10_StagesInOrder ==
    /\ [](/\ \A i \in 1..Len(stages) : stages[i] \in Range(StageOrder)
          /\ \A i \in 1..Len(stages) : \A j \in 1..Len(stages) :
                i < j => StageIndex(stages[i]) < StageIndex(stages[j])
          /\ pc # "idle" => (stages # <<>> /\ stages[Len(stages)] = pc)
          /\ pc = "Installed" =>
                /\ InStages("Downloading") /\ downloaded /\ tmpFile # NoFile
                /\ InStages("Verifying") <=> ~targetFile.SHA256.empty
                /\ ~targetFile.SHA256.empty =>
                      targetFile.SHA256.hex = tmpFile
                /\ InStages("Extracting") /\ InStages("Validating")
                /\ TrimmedValid(dirs[req], req, goos))
    /\ [][(\E v \in Versions : v \in DOMAIN cfg'.Versions /\ v \notin DOMAIN cfg.Versions) =>
              (pc = "Installed" /\ DOMAIN cfg'.Versions = DOMAIN cfg.Versions \cup {req})]_vars

C10_Witness ==
    /\ InstallReturned
    /\ result.err = "nil"
    /\ HasRecord(result.version)
    /\ stages = StageOrder

\* The records of the persisted versions map whose Active flag is set.
ActiveRecords == { v \in DOMAIN cfg.Versions : cfg.Versions[v].Active }

\* C11: in every reachable state at most one record of the persisted
\* versions map has Active = true.
C11_AtMostOneActive == Cardinality(ActiveRecords) <= 1

C11_Witness ==
    /\ result = Result("use", "go1.21", "nil", "nil")
    /\ DOMAIN cfg.Versions = Versions
    /\ ActiveRecords = {"go1.21"}
    /\ shim.exists /\ shim.target = "go1.21"

\* An installation of v in the full sense: a record and a directory that
\* passes validation.
Installed(v) == HasRecord(v) /\ TrimmedValid(dirs[v], v, goos)

\* C12: every UseVersion(v) of an installed v succeeds, and a UseVersion(v)
\* that follows a UseVersion(v) leaves the shim, currentVersion, the Active
\* flags and the start-up file as the first call left them.
C12_ActivationIdempotent ==
    /\ []((result.op = "use" /\ Installed(result.version)) => result.err = "nil")
    /\ [][\A v \in Versions :
             (/\ result.op = "use" /\ result.version = v
              /\ Installed(v)
              /\ UseVersion(v)) =>
                 /\ result'.err = "nil"
                 /\ shim' = shim
                 /\ cfg'.CurrentVersion = cfg.CurrentVersion
                 /\ cfg'.Versions = cfg.Versions
                 /\ shellrc' = shellrc]_vars

\* C13: UseVersion(v) of a v without a record fails with the not-installed
\* error and leaves the state store and the shim as they were.
C13_UseRequiresRecord ==
    [][\A v \in Versions :
          (~HasRecord(v) /\ UseVersion(v)) =>
              /\ result'.err = "not installed"
              /\ cfg' = cfg
              /\ shim' = shim]_vars

\* C14: UseVersion persists currentVersion before it touches the shim, and
\* from a state an interrupted UseVersion(v) left (currentVersion = v, the
\* shim at its old target or absent) a UseVersion(v) that runs to its end
\* leaves currentVersion = v and the shim targeting the go binary of v.
C14_RerunRecovers ==
    [][\A v \in Versions :
          /\ (\E u \in BOOLEAN : UseVersionInterrupted(v, u)) =>
                (cfg'.CurrentVersion = v /\ (shim' = shim \/ shim' = NoShim))
          /\ (/\ result = Result("use", v, "interrupted", "nil")
              /\ cfg.CurrentVersion = v
              /\ ~(shim.exists /\ shim.target = v)
              /\ UseVersion(v)) =>
                 (cfg'.CurrentVersion = v /\ shim'.exists /\ shim'.target = v)]_vars

\* The number of lines of a file that are the line l.
Count(lines, l) == Cardinality({ i \in 1..Len(lines) : lines[i] = l })

UseSucceeded == result.op = "use" /\ result.err = "nil"

\* C15 as stated: after a successful UseVersion the start-up file holds
\* exactly one line with the GVM PATH marker, which names the shim
\* directory, and none that names a version directory.
C15_AsStated ==
    UseSucceeded =>
        (Count(shellrc.lines, "gvmpath") = 1 /\ Count(shellrc.lines, "verpath") = 0)

\* C15 amended: after a successful UseVersion, on a POSIX target the
\* start-up file holds exactly one line with the GVM PATH marker, which
\* names the shim directory, and none that names a version directory; on
\* windows the profile holds no GVM PATH line but exactly one GVM INIT hook,
\* and env.ps1, which the hook loads, consists of the one GVM PATH line for
\* the shim directory.
C15_ShimDirOnPathOnce ==
    UseSucceeded =>
        IF goos = "windows"
        THEN /\ Count(shellrc.lines, "gvminit") = 1
             /\ Count(shellrc.lines, "gvmpath") = 0
             /\ shellrc.env = <<"gvmpath">>
        ELSE /\ Count(shellrc.lines, "gvmpath") = 1
             /\ Count(shellrc.lines, "verpath") = 0

C15_Witness ==
    /\ UseSucceeded
    /\ goos = "linux"
    /\ result.version = "go1.21"
    /\ ActiveRecords = {"go1.21"}
    /\ HasRecord("go1.20")
    /\ shellrc.lines = <<"other", "gvmpath">>

\* The number of requests a retry loop has made when it stands at attempt a
\* of base b.
Position(b, a) == MaxAttempts * (b - 1) + a

\* The catalog requests that fail, and those that return a release list.
FetchFailures == { r \in FetchResponses : ~r.ok }
FetchSuccesses == { r \in FetchResponses : r.ok }

\* C16: GetAvailableVersions makes at most 3 requests to the primary base
\* and at most 3 to the mirror, one more after each failure of whatever
\* kind, and turns to the mirror only after the third failure on the
\* primary; the first successful request ends it with its release list,
\* in which the version is then looked up, and when the sixth request fails
\* the error returned wraps the error of that request.
C16_CatalogRetries ==
    /\ [](pc = "Resolving" =>
            (base \in 1..Len(bases) /\ attempt \in 0..(MaxAttempts - 1)))
    /\ [][pc = "Resolving" =>
           IF pc' = "Resolving" \/ result'.err = "failed to fetch Go versions"
           THEN /\ \A r \in FetchSuccesses : ~Resolve(r)
                /\ IF Position(base, attempt) = Position(Len(bases), MaxAttempts - 1)
                   THEN /\ pc' = "idle"
                        /\ \E r \in FetchFailures : Resolve(r) /\ result'.cause = r.err
                   ELSE /\ pc' = "Resolving"
                        /\ Position(base', attempt') = Position(base, attempt) + 1
                        /\ base' # base => (base = 1 /\ attempt = MaxAttempts - 1)
           ELSE /\ \A r \in FetchFailures : ~Resolve(r)
                /\ pc' \in {"idle", "Downloading"}
                /\ pc' = "Downloading" =>
                      (targetFile'.Version = req /\ targetFile'.OS = goos)]_vars

C16_Witness ==
    /\ InstallReturned
    /\ fetched
    /\ result.err = "failed to fetch Go versions"
    /\ result.cause = "malformed json"

\* The errors InstallVersion returns for a failure of the downloader, the
\* verifier or an extractor.
ComponentFailures ==
    {"failed to download from all mirrors", "failed to verify sha256", "failed to extract"}

\* C17: an InstallVersion that failed in the downloader, the verifier or an
\* extractor has returned an error that wraps the error of that component;
\* when every download attempt failed it wraps the error of the last one.
C17_CausePreserved ==
    (InstallReturned /\ result.err \in ComponentFailures) => result.cause # "nil"

\* The DownloadFile calls that fail, and those that deliver a file.
DownloadSuccesses(version, os) == { r \in DownloadResponses(version, os) : r.ok }

\* C18: the download loop of InstallVersion calls the downloader at most 3
\* times on the primary base and at most 3 times on the mirror, always for
\* the same file, one more call after each failure, and turns to the mirror
\* only after the third failure on the primary; the first successful call
\* ends the loop, and the install goes on to verification or extraction
\* only from a successful call.
C18_DownloadRetries ==
    /\ [](pc = "Downloading" =>
            /\ base \in 1..Len(bases) /\ attempt \in 0..(MaxAttempts - 1)
            /\ targetFile # NoTarget)
    /\ [][pc = "Downloading" =>
           IF pc' \in {"Verifying", "Extracting"}
           THEN /\ \A r \in DownloadResponses(req, goos) : ~r.ok => ~Download(r)
                /\ tmpFile' \in Served(req, goos)
           ELSE /\ \A r \in DownloadSuccesses(req, goos) : ~Download(r)
                /\ tmpFile' = tmpFile
                /\ IF Position(base, attempt) = Position(Len(bases), MaxAttempts - 1)
                   THEN /\ pc' = "idle"
                        /\ result'.err = "failed to download from all mirrors"
                   ELSE /\ pc' = "Downloading"
                        /\ targetFile' = targetFile
                        /\ Position(base', attempt') = Position(base, attempt) + 1
                        /\ base' # base => (base = 1 /\ attempt = MaxAttempts - 1)]_vars

C18_Witness ==
    /\ pc = "Downloading"
    /\ downloaded
    /\ base = Len(bases) /\ attempt = MaxAttempts - 1
    /\ lastErr = "stream error"

\* A DownloadFile call that has returned because the stream of the body
\* broke.
StreamFailed == dl.pc = "done" /\ dl.resp.err = "stream error"

\* C19: when DownloadFile fails on a read or write error while the body is
\* streamed, the gvm-download-* file it created is gone, the error is
\* returned and destPath is as it was before the call.
C19_StreamErrorCleansUp ==
    StreamFailed =>
        /\ ~dl.temp.exists
        /\ dl.err = "stream error"
        /\ dl.dest = dl.before

\* The states of a DownloadFile call after the copy of the body.
AfterCopy == dl.pc \in {"sync", "close", "remove", "rename"}

\* C20: when the file is synced, closed and renamed, it holds every byte of
\* the response body and the buffered writer holds none; a file found at
\* destPath is removed before the rename; and after every successful return
\* the file at destPath holds exactly the response body.
C20_BodyCompleteBeforeRename ==
    /\ AfterCopy =>
          (dl.temp.bytes = Bytes(dl.resp.body) /\ dl.buf = <<>>)
    /\ dl.pc = "rename" => ~dl.dest.exists
    /\ (dl.pc = "done" /\ dl.err = "nil") =>
          /\ dl.resp.ok
          /\ dl.dest = NewFile(Bytes(dl.resp.body))
          /\ ArchiveOf(dl.dest) = dl.resp.body

C20_Witness ==
    /\ dl.pc = "done" /\ dl.err = "nil"
    /\ dl.before.exists
    /\ dl.before # dl.dest
    /\ dl.renameFails
    /\ dl.dest.bytes = Bytes(dl.resp.body)

\* A digest string with its letters in lower case.
ToLower(d) == [d EXCEPT !.upper = FALSE]

\* C21: VerifySHA256 returns nil iff the hex digest of the file's content
\* equals the expected string once letter case is ignored, and a file whose
\* content differs from the one the expected digest was computed from gets
\* the mismatch error.
C21_VerifyIffDigestsEqualFold ==
    [][pc = "Verifying" =>
          LET sum == ComputeSHA256(tmpFile) IN
          /\ VerifySHA256(tmpFile, targetFile.SHA256) <=>
                ToLower(sum) = ToLower(targetFile.SHA256)
          /\ pc' = "Extracting" <=> ToLower(sum) = ToLower(targetFile.SHA256)
          /\ tmpFile # targetFile.SHA256.hex =>
                /\ pc' = "idle"
                /\ result'.err = "failed to verify sha256"
                /\ result'.cause = "sha256 mismatch"]_vars

C21_Witness ==
    /\ pc = "Extracting"
    /\ InStages("Verifying")
    /\ targetFile.SHA256.upper
    /\ ComputeSHA256(tmpFile) # targetFile.SHA256
    /\ tmpFile = targetFile.SHA256.hex

\* The steps of an install that write under installDir/req.
Extracts == pc # "idle" /\ dirs'[req] # dirs[req]

\* C22: when the catalog lists no digest for the selected file, the install
\* goes from Downloading to Extracting, the digest check neither runs nor
\* fails, and whatever was downloaded is extracted and, if validation
\* passes, recorded; when the catalog lists a digest, the check has run and
\* passed before anything is extracted.
C22_EmptyDigestSkipsVerification ==
    /\ [](pc \in {"Extracting", "Validating", "Installed"} =>
            /\ InStages("Verifying") <=> ~targetFile.SHA256.empty
            /\ ~targetFile.SHA256.empty => tmpFile = targetFile.SHA256.hex)
    /\ [](pc = "Verifying" => ~targetFile.SHA256.empty)
    /\ [][/\ (pc = "Downloading" /\ pc' \notin {"Downloading", "idle"}) =>
                pc' = IF targetFile.SHA256.empty THEN "Extracting" ELSE "Verifying"
          /\ (pc # "idle" /\ targetFile.SHA256.empty) =>
                result'.err # "failed to verify sha256"
          /\ Extracts => (pc = "Extracting" \/ (pc = "Validating" /\ ~dirs'[req].exists))]_vars

C22_Witness ==
    /\ InstallReturned
    /\ result.err = "nil"
    /\ ~InStages("Verifying")
    /\ stages = <<"Resolving", "Downloading", "Extracting", "Validating", "Installed">>
    /\ HasRecord(result.version)
    /\ DataOf(dirs[result.version], <<"VERSION">>) # <<result.version>>

\* C23: when the digest of the downloaded file differs from the digest the
\* catalog lists, InstallVersion(v) fails before it extracts anything:
\* installDir/v does not exist, no record is written, currentVersion and
\* the shim are as they were and the downloaded archive is removed.
C23_DigestMismatchLeavesNothing ==
    /\ []((InstallReturned /\ result.err = "failed to verify sha256") =>
            /\ ~dirs[result.version].exists
            /\ ~InStages("Extracting")
            /\ tmpFile = NoFile)
    /\ [][(/\ pc = "Verifying"
           /\ ToLower(ComputeSHA256(tmpFile)) # ToLower(targetFile.SHA256)) =>
              /\ pc' = "idle"
              /\ result' = Result("install", req, "failed to verify sha256", "sha256 mismatch")
              /\ ~dirs'[req].exists
              /\ UNCHANGED <<dirs, cfg, shim, shellrc>>
              /\ tmpFile # NoFile /\ tmpFile' = NoFile]_vars

C23_Witness ==
    /\ InstallReturned
    /\ result.err = "failed to verify sha256"
    /\ stages = <<"Resolving", "Downloading", "Verifying">>
    /\ ~HasRecord(result.version)
    /\ tmpFile = NoFile
    /\ shim.exists /\ cfg.CurrentVersion # ""

\* The archives the round trip is about: every entry lies under go/, and no
\* name climbs.
UnderGo(entries) ==
    \A i \in 1..Len(entries) :
        /\ Head(entries[i].name) = "go"
        /\ ".." \notin Range(entries[i].name)

\* The regular files of an archive, each at its name less the go/ prefix.
Expected(entries) ==
    { [path |-> Tail(entries[i].name), data |-> entries[i].data] :
        i \in { j \in 1..Len(entries) : entries[j].typ = "reg" } }

\* C24: ExtractTarGz and ExtractZip, given an archive whose regular files
\* all lie under go/ at any depth, with or without directory entries for
\* their parents, and an empty destDir, return nil and leave exactly those
\* files, each at its name less the go/ prefix and with its content.
C24_ExtractionRoundTrip ==
    (ex.pc = "done" /\ UnderGo(ex.file.entries)) =>
        /\ ex.ok
        /\ ex.tree.exists
        /\ ex.tree.files = Expected(ex.file.entries)

\* The positions of the stable entries of a release list.
StableAt(versions) == { i \in 1..Len(versions) : versions[i].Stable }

\* C25: GetLatestStable returns the version id of the first entry of the
\* release list, in the order it was delivered, whose stable flag is set,
\* whatever comes before or after it; it fails with the not-found error
\* exactly when no entry is stable, and a failed fetch is returned as the
\* error of that fetch.
C25_FirstStableInCatalogOrder ==
    ls.pc = "done" =>
        IF ~ls.versions.ok
        THEN /\ ls.err = "failed to fetch Go versions"
             /\ ls.cause = ls.versions.err
             /\ ls.version = ""
        ELSE LET versions == ls.versions.body IN
             /\ ls.err = "no stable versions found" <=> StableAt(versions) = {}
             /\ ls.err \in {"nil", "no stable versions found"}
             /\ ls.err = "nil" =>
                   \E i \in StableAt(versions) :
                       /\ ls.version = versions[i].Version
                       /\ \A j \in StableAt(versions) : i <= j
             /\ ls.err # "nil" => ls.version = ""

C25_Witness ==
    /\ ls.pc = "done"
    /\ ls.err = "nil"
    /\ ls.version = "go1.20"
    /\ ls.versions.body =
          << GoVersion("go1.22rc1", FALSE, <<>>), GoVersion("go1.20", TRUE, <<>>),
             GoVersion("go1.21", TRUE, <<>>) >>

\* C26: the normalisation of a version argument puts "go" in front of a
\* string that does not start with "go", leaves a string that starts with
\* "go" as it is, leaves the alias "latest" as "latest", and applied twice
\* gives what it gives applied once.
C26_NormalizationAsTested ==
    fv.pc = "done" =>
        /\ fv.input = latest => fv.once = latest
        /\ (fv.input # latest /\ ~HasPrefixGo(fv.input)) =>
              fv.once = <<"g", "o">> \o fv.input
        /\ HasPrefixGo(fv.input) => fv.once = fv.input
        /\ fv.twice = fv.once

\* Records and directories agree.
Agree == \A v \in Versions : ~Orphaned(v) /\ ~Stray(v)

\* C27: UninstallVersion removes installDir/v before it deletes the record
\* of v and deletes the record only when the directory is gone, so an
\* uninstall that stops in the middle leaves at worst a record without its
\* directory and makes no directory without a record; and from such a state
\* install and uninstall operations can bring records and directories back
\* into agreement.
C27_UninstallOrderAndRecovery ==
    /\ [][/\ \A v \in Versions :
               (HasRecord(v) /\ ~HasRecord(v)') => (result'.op = "uninstall" /\ ~dirs'[v].exists)
          /\ (result'.op = "uninstall" /\ result'.err \notin {"nil", "not installed", "currently active"}) =>
               /\ cfg' = cfg
               /\ \A w \in Versions : Stray(w)' => Stray(w)
               /\ \A w \in Versions \ {result'.version} : Orphaned(w)' => Orphaned(w)]_vars
    /\ ((\E v \in Versions : Orphaned(v)) /\ (\A w \in Versions : ~Stray(w))) ~> Agree

C27_Witness ==
    /\ result.op = "uninstall"
    /\ result.err = "interrupted"
    /\ Orphaned(result.version)
    /\ \A w \in Versions : ~Stray(w)
    /\ \E w \in Versions \ {result.version} : HasRecord(w) /\ dirs[w].exists

\* C28: the mutators of the state store load, change and save config.json
\* with nothing held in between, so a Save writes the document its own call
\* loaded plus its own change, and a record another process added after that
\* load is gone afterwards; two processes that both returned nil can thus
\* leave a config.json that shows the change of only one of them.
C28_UnlockedSaveOverwrites ==
    [][\A p \in Procs :
          (procs[p].pc = "loaded" /\ procs'[p].pc = "idle") =>
              /\ procs'[p].err = "nil"
              /\ cfg' = IF procs[p].op = "AddVersion"
                        THEN AddVersion(procs[p].config, procs[p].version)
                        ELSE SetCurrentVersion(procs[p].config, procs[p].version)
              /\ \A b \in DOMAIN cfg.Versions \ DOMAIN procs[p].config.Versions :
                    b # procs[p].version => b \notin DOMAIN cfg'.Versions
              /\ (procs[p].op = "AddVersion" /\ cfg.CurrentVersion # procs[p].config.CurrentVersion) =>
                    cfg'.CurrentVersion = procs[p].config.CurrentVersion]_vars

\* Both processes returned nil from AddVersion, for different versions, and
\* config.json holds the record of one of them only.
C28_Witness ==
    /\ \A p \in Procs : procs[p].pc = "idle" /\ procs[p].err = "nil"
    /\ procs[1].op = "AddVersion" /\ procs[1].version = "go1.20"
    /\ procs[2].op = "AddVersion" /\ procs[2].version = "go1.21"
    /\ DOMAIN cfg.Versions = {"go1.21"}

\* A path, relative to destPath, that lies in destPath.
Inside(p) == p = <<>> \/ Head(p) # ".."

\* C29: whatever the names of the entries, every file and every directory
\* ExtractTarGz or ExtractZip creates lies inside destPath.
C29_ExtractionStaysInside ==
    ex.pc = "done" =>
        /\ \A f \in ex.tree.files : Inside(f.path)
        /\ \A q \in ex.tree.subdirs : Inside(q)

\* C30: between calls the Active flag of every record agrees with
\* currentVersion, a record being Active iff currentVersion names it; and
\* InstallVersion records the new version with Active = false and changes
\* neither currentVersion nor the flag of any other record.
C30_ActiveAgreesWithCurrent ==
    /\ [](pc = "idle" =>
            \A k \in DOMAIN cfg.Versions :
                cfg.Versions[k].Active <=> cfg.CurrentVersion = k)
    /\ [][pc # "idle" =>
            \/ cfg' = cfg
            \/ /\ pc = "Installed"
               /\ DOMAIN cfg'.Versions = DOMAIN cfg.Versions \cup {req}
               /\ ~cfg'.Versions[req].Active
               /\ cfg'.CurrentVersion = cfg.CurrentVersion
               /\ \A k \in DOMAIN cfg.Versions \ {req} :
                     cfg'.Versions[k] = cfg.Versions[k]]_vars

====
